---- MODULE Spec2Model ----
(***************************************************************************)
(* Model of the camera-perspective scene viewer: the asynchronous model    *)
(* load, the per-frame hit test, the click handler with its parent-chain   *)
(* walk, and the toggle that scrubs the animation clips and swaps the      *)
(* blur pass, the lens flare and the manga shader material.                *)
(*                                                                         *)
(* Times are in milliseconds (6.049 s = 6049).  The pointer coordinates    *)
(* are exact rationals [num, den].  The ray cast and the orbit camera are  *)
(* external: a frame's nearest hit is any mesh of the model, or none.      *)
(***************************************************************************)
EXTENDS Integers, Sequences, FiniteSets, TLC

Null == "null"

\* ---- bounds of the exploration ------------------------------------------
MaxClips == 2
MaxClicks == 3

\* ---- program constants ---------------------------------------------------
OpenTime == 6049
ClosedTime == 0
MaxPixelRatio == 2

RenderPass == "RenderPass"
KawaseBlurPass == "KawaseBlurPass"
MangaMaterial == "manga"
Flare == "lensFlareEffect"
Light == "mangaDirectionalLight"
Camera == "camera"
Scene == "scene"
Root == "root"

\* ---- inputs --------------------------------------------------------------
\* the scene of the loaded file: a root group, a child and a grandchild
GltfNodes == {Root, "n1", "n2"}
GltfParent == [n \in GltfNodes |->
                 CASE n = Root -> Null
                   [] n = "n1" -> Root
                   [] n = "n2" -> "n1"]
\* the material a node of the file carries when it is a mesh
FileMaterial == [n \in GltfNodes |->
                   CASE n = Root -> "matR"
                     [] n = "n1" -> "matA"
                     [] n = "n2" -> "matB"]
Durations == {3000, 8000}
Deltas == {0, 16}
\* <<innerWidth, innerHeight, devicePixelRatio>> of the window
Windows == {<<800, 600, 1>>, <<400, 300, 3>>}
PointerPositions == {<<200, 150>>}
PlayOutcomes == {"resolved", "rejected"}

SeqsUpTo(S, n) == UNION {[1..k -> S] : k \in 0..n}

\* the files the loader can deliver: the root is a group, every other node
\* is a mesh with its material or a group without one; zero or more clips
GltfFiles ==
  { [kind |-> k,
     material |-> [n \in GltfNodes |->
                     IF k[n] = "Mesh" THEN FileMaterial[n] ELSE Null],
     animations |-> a] :
      k \in {f \in [GltfNodes -> {"Group", "Mesh"}] : f[Root] = "Group"},
      a \in SeqsUpTo(Durations, MaxClips) }

VARIABLES loadState, gltf, gltfModel, parent, kind, material, originalMaterial,
          background, lightPosition, mixer, actions, passes, isOpen,
          currentIntersect, mouse, sizes, cameraAspect, rendererSize,
          pixelRatio, resolution, cues, rejections, toggleCalls, clicks,
          qualifying, direct, ev

vars == <<loadState, gltf, gltfModel, parent, kind, material, originalMaterial,
          background, lightPosition, mixer, actions, passes, isOpen,
          currentIntersect, mouse, sizes, cameraAspect, rendererSize,
          pixelRatio, resolution, cues, rejections, toggleCalls, clicks,
          qualifying, direct, ev>>

Min(a, b) == IF a < b THEN a ELSE b

\* ---- scene graph ---------------------------------------------------------
Children(par, o) == {n \in DOMAIN par : par[n] = o}

RECURSIVE Traverse(_, _)
Traverse(par, o) == {o} \cup UNION {Traverse(par, c) : c \in Children(par, o)}

sceneAdd(par, o) == [par EXCEPT ![o] = Scene]
sceneRemove(par, o) == IF par[o] = Scene THEN [par EXCEPT ![o] = Null] ELSE par

\* ---- animation mixer -----------------------------------------------------
clipAction(d) ==
  [duration |-> d, time |-> 0, paused |-> FALSE, enabled |-> TRUE,
   active |-> FALSE, loopCount |-> -1]

reset(a) == [a EXCEPT !.paused = FALSE, !.enabled = TRUE, !.time = 0,
                      !.loopCount = -1]
play(a) == [a EXCEPT !.active = TRUE]

updateTime(a, deltaTime) ==
  LET time == a.time + deltaTime
      loopCount == IF a.loopCount = -1 THEN 0 ELSE a.loopCount
      loopDelta == time \div a.duration
  IN IF deltaTime = 0 THEN a
     ELSE IF time >= a.duration
          THEN [a EXCEPT !.time = time - a.duration * loopDelta,
                         !.loopCount = loopCount + loopDelta]
          ELSE [a EXCEPT !.time = time, !.loopCount = loopCount]

actionUpdate(a, deltaTime) ==
  IF ~a.enabled THEN a
  ELSE updateTime(a, deltaTime * (IF a.paused THEN 0 ELSE 1))

mixerUpdate(acts, deltaTime) ==
  [i \in DOMAIN acts |->
     IF acts[i].active THEN actionUpdate(acts[i], deltaTime) ELSE acts[i]]

mixerSetTime(acts, t) ==
  mixerUpdate([i \in DOMAIN acts |-> [acts[i] EXCEPT !.time = 0]], t)

\* ---- effects -------------------------------------------------------------
HasBlur(p) == \E i \in DOMAIN p : p[i] = KawaseBlurPass

removeBlur(p) == SelectSeq(p, LAMBDA x : x # KawaseBlurPass)
applyBlur(p) == IF ~HasBlur(p) THEN Append(p, KawaseBlurPass) ELSE p

applyLensFlare(par) == sceneAdd(par, Flare)
removeLensFlare(par) == sceneRemove(par, Flare)

\* variant: restores only the direct children of the model root
removeMangaShaderMaterial_shallow(s) ==
  IF gltfModel # Null
  THEN [s EXCEPT !.material =
          [n \in DOMAIN s.material |->
             IF /\ n \in Children(s.parent, gltfModel)
                /\ kind[n] = "Mesh"
                /\ s.originalMaterial[n] # Null
             THEN s.originalMaterial[n] ELSE s.material[n]]]
  ELSE s

\* variant: swaps the current and the stored material
removeMangaShaderMaterial_swap(s) ==
  IF gltfModel # Null
  THEN LET hit(n) == /\ n \in Traverse(s.parent, gltfModel)
                     /\ kind[n] = "Mesh"
                     /\ s.originalMaterial[n] # Null
       IN [s EXCEPT !.material =
                      [n \in DOMAIN s.material |->
                         IF hit(n) THEN s.originalMaterial[n]
                         ELSE s.material[n]],
                    !.originalMaterial =
                      [n \in DOMAIN s.originalMaterial |->
                         IF hit(n) THEN s.material[n]
                         ELSE s.originalMaterial[n]]]
  ELSE s

\* s is the part of the state a toggle can touch
removeMangaShaderMaterial(s) ==
  IF gltfModel # Null
  THEN [s EXCEPT !.material =
          [n \in DOMAIN s.material |->
             IF /\ n \in Traverse(s.parent, gltfModel)
                /\ kind[n] = "Mesh"
                /\ s.originalMaterial[n] # Null
             THEN s.originalMaterial[n] ELSE s.material[n]]]
  ELSE s

applyMangaShaderMaterial(s) ==
  IF gltfModel # Null
  THEN [s EXCEPT !.material =
          [n \in DOMAIN s.material |->
             IF n \in Traverse(s.parent, gltfModel) /\ kind[n] = "Mesh"
             THEN MangaMaterial ELSE s.material[n]]]
  ELSE s

soundPlay(s, outcome) ==
  [s EXCEPT !.cues = @ + 1,
            !.rejections = @ + (IF outcome = "rejected" THEN 1 ELSE 0)]

closeBranch(s) ==
  LET s1 == [s EXCEPT !.passes = applyBlur(@)]
      s2 == applyMangaShaderMaterial(s1)
      s3 == [s2 EXCEPT !.parent = removeLensFlare(@)]
      s4 == [s3 EXCEPT !.actions =
               [i \in DOMAIN @ |-> [play(reset(@[i])) EXCEPT !.time = 0]]]
  IN [s4 EXCEPT !.actions = mixerSetTime(@, ClosedTime)]

openBranch(s) ==
  LET s1 == [s EXCEPT !.passes = removeBlur(@)]
      s2 == [s1 EXCEPT !.parent = applyLensFlare(@)]
      s3 == removeMangaShaderMaterial(s2)
      s4 == [s3 EXCEPT !.actions =
               [i \in DOMAIN @ |-> [play(reset(@[i])) EXCEPT !.time = 0]]]
  IN [s4 EXCEPT !.actions = mixerSetTime(@, OpenTime)]

\* variant: the pause is lost
pauseAll_skipped(s) == s

pauseAll(s) ==
  [s EXCEPT !.actions = [i \in DOMAIN @ |-> [@[i] EXCEPT !.paused = TRUE]]]

\* variant: no guard on the clip collection
toggleAnimation_noGuard(s0, outcome) ==
  LET s == [s0 EXCEPT !.toggleCalls = @ + 1]
      b == IF s.isOpen THEN closeBranch(s) ELSE openBranch(s)
      p == pauseAll(b)
      c == soundPlay(p, outcome)
  IN [c EXCEPT !.isOpen = ~@]

\* variant: the cue is played once per clip
toggleAnimation_cuePerClip(s0, outcome) ==
  LET s == [s0 EXCEPT !.toggleCalls = @ + 1]
  IN IF Len(s.actions) > 0
     THEN LET b == IF s.isOpen THEN closeBranch(s) ELSE openBranch(s)
              p == pauseAll(b)
              c == [soundPlay(p, outcome) EXCEPT
                      !.cues = p.cues + Len(p.actions)]
          IN [c EXCEPT !.isOpen = ~@]
     ELSE s

\* variant: a rejected playback aborts the handler before the flip
toggleAnimation_throwOnReject(s0, outcome) ==
  LET s == [s0 EXCEPT !.toggleCalls = @ + 1]
  IN IF Len(s.actions) > 0
     THEN LET b == IF s.isOpen THEN closeBranch(s) ELSE openBranch(s)
              p == pauseAll(b)
              c == soundPlay(p, outcome)
          IN IF outcome = "rejected" THEN c ELSE [c EXCEPT !.isOpen = ~@]
     ELSE s

toggleAnimation(s0, outcome) ==
  LET s == [s0 EXCEPT !.toggleCalls = @ + 1]
  IN IF Len(s.actions) > 0
     THEN LET b == IF s.isOpen THEN closeBranch(s) ELSE openBranch(s)
              p == pauseAll(b)
              c == soundPlay(p, outcome)
          IN [c EXCEPT !.isOpen = ~@]
     ELSE s

\* ---- click handler -------------------------------------------------------
\* variant: only the hit object itself is compared with the model
walk_noAncestors(object, s, outcome) ==
  IF object = gltfModel THEN toggleAnimation(s, outcome) ELSE s

\* variant: a direct child of the model matches as well
RECURSIVE walk_childMatches(_, _, _)
walk_childMatches(object, s, outcome) ==
  IF object = Null THEN s
  ELSE walk_childMatches(
         s.parent[object],
         IF object = gltfModel \/ s.parent[object] = gltfModel
         THEN toggleAnimation(s, outcome) ELSE s,
         outcome)

RECURSIVE walk(_, _, _)
walk(object, s, outcome) ==
  IF object = Null THEN s
  ELSE walk(s.parent[object],
            IF object = gltfModel THEN toggleAnimation(s, outcome) ELSE s,
            outcome)

onClick(s, outcome) ==
  IF currentIntersect # Null /\ gltfModel # Null /\ Len(s.actions) > 0
  THEN walk(currentIntersect, s, outcome)
  ELSE s

\* ---- hit test ------------------------------------------------------------
\* raycaster.intersectObjects(objectsToTest, true): the meshes under the
\* objects to test that the ray can meet
Raycastable ==
  IF gltfModel = Null THEN {}
  ELSE {n \in Traverse(parent, gltfModel) : kind[n] = "Mesh"}

\* ---- the state a toggle can touch ---------------------------------------
Ctl ==
  [passes |-> passes, parent |-> parent, material |-> material,
   originalMaterial |-> originalMaterial, actions |-> actions,
   isOpen |-> isOpen, cues |-> cues, rejections |-> rejections,
   toggleCalls |-> toggleCalls]

SetCtl(s) ==
  /\ passes' = s.passes
  /\ parent' = s.parent
  /\ material' = s.material
  /\ originalMaterial' = s.originalMaterial
  /\ actions' = s.actions
  /\ isOpen' = s.isOpen
  /\ cues' = s.cues
  /\ rejections' = s.rejections
  /\ toggleCalls' = s.toggleCalls

\* a click qualifies when the stored hit lies in the model's subtree and the
\* model has clips (computed downward from the root, unlike the walk)
InSubtree == /\ currentIntersect # Null
             /\ gltfModel # Null
             /\ currentIntersect \in Traverse(parent, gltfModel)
Qualifies == InSubtree /\ Len(actions) > 0

\* ---- initial state -------------------------------------------------------
Init ==
  /\ loadState = "pending"
  /\ gltf = Null
  /\ gltfModel = Null
  /\ parent = [o \in {Scene, Light, Camera, Flare} |->
                 IF o \in {Light, Camera} THEN Scene ELSE Null]
  /\ kind = [o \in {Scene, Light, Camera, Flare} |-> "Object3D"]
  /\ material = <<>>
  /\ originalMaterial = <<>>
  /\ background = Null
  /\ lightPosition = <<0, 1, 0>>
  /\ mixer = FALSE
  /\ actions = <<>>
  /\ passes = <<RenderPass, KawaseBlurPass>>
  /\ isOpen = FALSE
  /\ currentIntersect = Null
  /\ mouse = [x |-> [num |-> 0, den |-> 1], y |-> [num |-> 0, den |-> 1]]
  /\ \E w \in Windows :
       /\ sizes = [width |-> w[1], height |-> w[2]]
       /\ cameraAspect = [num |-> w[1], den |-> w[2]]
       /\ rendererSize = <<w[1], w[2]>>
       /\ pixelRatio = Min(w[3], MaxPixelRatio)
       /\ resolution = <<w[1], w[2]>>
  /\ cues = 0
  /\ rejections = 0
  /\ toggleCalls = 0
  /\ clicks = 0
  /\ qualifying = 0
  /\ direct = 0
  /\ ev = "init"

\* ---- loader callbacks ----------------------------------------------------
Load ==
  /\ loadState = "pending"
  /\ \E g \in GltfFiles :
       /\ gltf' = g
       /\ gltfModel' = Root
       /\ parent' = sceneAdd(sceneAdd(
            [o \in DOMAIN parent \cup GltfNodes |->
               IF o \in GltfNodes THEN GltfParent[o] ELSE parent[o]],
            Root), Light)
       /\ kind' = [o \in DOMAIN kind \cup GltfNodes |->
                     IF o \in GltfNodes THEN g.kind[o] ELSE kind[o]]
       /\ originalMaterial' = [n \in GltfNodes |-> g.material[n]]
       /\ material' = [n \in GltfNodes |->
                         IF g.kind[n] = "Mesh" THEN MangaMaterial
                         ELSE g.material[n]]
       /\ mixer' = (Len(g.animations) > 0)
       /\ actions' = [i \in DOMAIN g.animations |-> clipAction(g.animations[i])]
  /\ loadState' = "loaded"
  /\ background' = "#30323D"
  /\ lightPosition' = <<2, 2, 2>>
  /\ ev' = "load"
  /\ UNCHANGED <<passes, isOpen, currentIntersect, mouse, sizes,
                 cameraAspect, rendererSize, pixelRatio, resolution, cues,
                 rejections, toggleCalls, clicks, qualifying, direct>>

LoadError ==
  /\ loadState = "pending"
  /\ loadState' = "failed"
  /\ ev' = "loadError"
  /\ UNCHANGED <<gltf, gltfModel, parent, kind, material, originalMaterial,
                 background, lightPosition, mixer, actions, passes, isOpen,
                 currentIntersect, mouse, sizes, cameraAspect,
                 rendererSize, pixelRatio, resolution, cues, rejections,
                 toggleCalls, clicks, qualifying, direct>>

\* ---- window events -------------------------------------------------------
MouseMove ==
  /\ \E c \in PointerPositions :
       mouse' = [x |-> [num |-> 2 * c[1] - sizes.width, den |-> sizes.width],
                 y |-> [num |-> sizes.height - 2 * c[2], den |-> sizes.height]]
  /\ ev' = "mousemove"
  /\ UNCHANGED <<loadState, gltf, gltfModel, parent, kind, material,
                 originalMaterial, background, lightPosition, mixer, actions,
                 passes, isOpen, currentIntersect, sizes, cameraAspect,
                 rendererSize, pixelRatio, resolution, cues, rejections,
                 toggleCalls, clicks, qualifying, direct>>

Resize ==
  /\ \E w \in Windows :
       /\ sizes' = [width |-> w[1], height |-> w[2]]
       /\ cameraAspect' = [num |-> w[1], den |-> w[2]]
       /\ rendererSize' = <<w[1], w[2]>>
       /\ pixelRatio' = Min(w[3], MaxPixelRatio)
       /\ resolution' = <<w[1], w[2]>>
  /\ ev' = "resize"
  /\ UNCHANGED <<loadState, gltf, gltfModel, parent, kind, material,
                 originalMaterial, background, lightPosition, mixer, actions,
                 passes, isOpen, currentIntersect, mouse, cues, rejections,
                 toggleCalls, clicks, qualifying, direct>>

Click ==
  /\ clicks + direct < MaxClicks
  /\ \E outcome \in PlayOutcomes : SetCtl(onClick(Ctl, outcome))
  /\ clicks' = clicks + 1
  /\ qualifying' = qualifying + (IF Qualifies THEN 1 ELSE 0)
  /\ ev' = "click"
  /\ UNCHANGED <<loadState, gltf, gltfModel, kind, background, lightPosition,
                 mixer, currentIntersect, mouse, sizes, cameraAspect,
                 rendererSize, pixelRatio, resolution, direct>>

\* ---- frame loop ----------------------------------------------------------
\* variant: the model is pushed to the test list without the null check
Tick_noNullCheck ==
  /\ gltfModel # Null
  /\ \E delta \in Deltas :
       actions' = IF mixer THEN mixerUpdate(actions, delta) ELSE actions
  /\ \E hit \in Raycastable \cup {Null} : currentIntersect' = hit
  /\ ev' = "tick"
  /\ UNCHANGED <<loadState, gltf, gltfModel, parent, kind, material,
                 originalMaterial, background, lightPosition, mixer, passes,
                 isOpen, mouse, sizes, cameraAspect, rendererSize,
                 pixelRatio, resolution, cues, rejections, toggleCalls, clicks,
                 qualifying, direct>>

Tick ==
  /\ \E delta \in Deltas :
       actions' = IF mixer THEN mixerUpdate(actions, delta) ELSE actions
  /\ \E hit \in Raycastable \cup {Null} : currentIntersect' = hit
  /\ ev' = "tick"
  /\ UNCHANGED <<loadState, gltf, gltfModel, parent, kind, material,
                 originalMaterial, background, lightPosition, mixer, passes,
                 isOpen, mouse, sizes, cameraAspect, rendererSize,
                 pixelRatio, resolution, cues, rejections, toggleCalls, clicks,
                 qualifying, direct>>

Next == Load \/ LoadError \/ MouseMove \/ Resize \/ Click \/ Tick

Spec == Init /\ [][Next]_vars

\* ---- the activation entry point called on its own ------------------------
Activate ==
  /\ clicks + direct < MaxClicks
  /\ \E outcome \in PlayOutcomes : SetCtl(toggleAnimation(Ctl, outcome))
  /\ direct' = direct + 1
  /\ ev' = "activate"
  /\ UNCHANGED <<loadState, gltf, gltfModel, kind, background, lightPosition,
                 mixer, currentIntersect, mouse, sizes, cameraAspect,
                 rendererSize, pixelRatio, resolution, clicks, qualifying>>

NextDirect == Next \/ Activate

SpecDirect == Init /\ [][NextDirect]_vars

\* ---- derived flags -------------------------------------------------------
Meshes == IF gltfModel = Null THEN {}
          ELSE {n \in Traverse(parent, gltfModel) : kind[n] = "Mesh"}
blurActive == HasBlur(passes)
lensFlareActive == parent[Flare] = Scene
shaderActive == \A n \in Meshes : material[n] = MangaMaterial
shaderInactive == \A n \in Meshes : material[n] # MangaMaterial

TypeOK ==
  /\ loadState \in {"pending", "loaded", "failed"}
  /\ isOpen \in BOOLEAN
  /\ clicks \in 0..MaxClicks
  /\ currentIntersect \in Raycastable \cup {Null}

EffectsMatchState ==
  /\ isOpen => (~blurActive /\ shaderInactive /\ lensFlareActive)
  /\ ~isOpen => (blurActive /\ shaderActive /\ ~lensFlareActive)

AllPausedAt(t) ==
  \A i \in DOMAIN actions : actions[i].paused /\ actions[i].time = t

\* ---- C1 -------------------------------------------------------------------
\* C1: in every state, and so right after every transition, blur and the
\* manga shader are on exactly when the state is Closed and the lens flare
\* is on exactly when the state is Open.
C1_EffectsFollowState ==
  /\ EffectsMatchState
  /\ (toggleCalls > 0) => (Meshes # {} /\ (shaderActive <=> blurActive)
                            /\ (lensFlareActive <=> ~shaderActive))

C1_Witness ==
  /\ isOpen /\ cues = 1 /\ Cardinality(Meshes) = 2
  /\ lensFlareActive /\ ~blurActive /\ ~shaderActive

\* ---- C2 -------------------------------------------------------------------
\* C2 as stated: a click invokes the toggle exactly when the stored hit is
\* the model root or a descendant of it.
C2_Original ==
  [][(clicks' # clicks) => ((toggleCalls' # toggleCalls) <=> InSubtree)]_vars

\* C2 amended: a click invokes the toggle, once, exactly when the stored
\* hit is the model root or a descendant of it and the clip collection is
\* not empty; nothing but a click invokes it.
C2_InvokedIffHitInModelWithClips ==
  [][/\ (clicks' # clicks) =>
          /\ (toggleCalls' = toggleCalls + 1) <=> Qualifies
          /\ (toggleCalls' = toggleCalls) <=> ~Qualifies
     /\ (clicks' = clicks) => (toggleCalls' = toggleCalls)]_vars

C2_Witness ==
  /\ ev = "click" /\ toggleCalls = 1 /\ currentIntersect = "n2"
  /\ kind["n1"] = "Group"

\* ---- C3 -------------------------------------------------------------------
\* C3: once a transition has run, every clip is paused, at 6.049 s when the
\* state is Open and at 0 when it is Closed, whatever its duration.
C3_PlayHeadAtTarget ==
  (cues > 0) => AllPausedAt(IF isOpen THEN OpenTime ELSE ClosedTime)

\* ---- C4 -------------------------------------------------------------------
\* C4: with an empty clip collection a click or a direct call of the
\* activation entry point leaves the state, the passes, the scene graph,
\* the materials, the clips and the cue count as they were.
C4_EmptyClipsNoOp ==
  [][(Len(actions) = 0 /\ (clicks' # clicks \/ direct' # direct)) =>
       UNCHANGED <<isOpen, passes, parent, material, originalMaterial,
                   actions, cues, rejections>>]_vars

C4_Witness ==
  /\ loadState = "loaded" /\ Len(actions) = 0 /\ direct = 1
  /\ ev = "click" /\ currentIntersect # Null

\* ---- C5 -------------------------------------------------------------------
\* C5: after a failed load the state is Closed, there is no model and no
\* clip, no toggle and no cue has happened, the effects are as at start,
\* and the frame loop can take its next tick.
C5_FailedLoadInert ==
  (loadState = "failed") =>
     /\ ~isOpen /\ gltfModel = Null /\ Len(actions) = 0 /\ ~mixer
     /\ toggleCalls = 0 /\ cues = 0
     /\ blurActive /\ ~lensFlareActive
     /\ currentIntersect = Null
     /\ ENABLED Tick

C5_Witness == loadState = "failed" /\ ev = "tick" /\ clicks = 2

\* ---- C6 -------------------------------------------------------------------
\* C6: every qualifying click runs the toggle once, so the state is Open
\* exactly when the number of qualifying clicks is odd; after two of them
\* the state is Closed with the clips paused at 0, blur and shader on and
\* the flare off.
C6_ParityOfQualifyingClicks ==
  /\ toggleCalls = qualifying
  /\ isOpen <=> (qualifying % 2 = 1)
  /\ (qualifying = 2) =>
        /\ ~isOpen /\ AllPausedAt(ClosedTime)
        /\ blurActive /\ shaderActive /\ ~lensFlareActive

C6_Witness == qualifying = 2 /\ Len(actions) = 2 /\ ev = "click"

\* ---- C7 -------------------------------------------------------------------
\* C7: a step issues one audio cue when it flips the state and none
\* otherwise.
C7_OneCuePerTransition ==
  [][cues' = cues + (IF isOpen' # isOpen THEN 1 ELSE 0)]_vars

C7_Witness == cues = 2 /\ ~isOpen /\ Len(actions) = 2

\* ---- C8 -------------------------------------------------------------------
\* C8: once loaded, the stored original material of every node is the
\* material of the file; removing the shader restores exactly it, and
\* removing it twice gives the materials of removing it once.
C8_OriginalCapturedOnce ==
  (loadState = "loaded") =>
     LET once == removeMangaShaderMaterial(Ctl)
         twice == removeMangaShaderMaterial(once)
     IN /\ originalMaterial = gltf.material
        /\ \A n \in Meshes : once.material[n] = gltf.material[n]
        /\ twice.material = once.material
        /\ twice.originalMaterial = gltf.material

C8_Witness == toggleCalls = 3 /\ Cardinality(Meshes) = 2 /\ isOpen

\* ---- C9 -------------------------------------------------------------------
\* C9: a step that issues a cue flips the state and leaves the effects in
\* line with the new state, whether the playback resolves or rejects.
C9_FlipDespiteRejectedCue ==
  [][(cues' # cues) =>
        /\ isOpen' = ~isOpen
        /\ EffectsMatchState'
        /\ rejections' \in {rejections, rejections + 1}]_vars

C9_Witness == rejections = 2 /\ cues = 2 /\ ~isOpen

\* ---- C10 ------------------------------------------------------------------
\* C10: ticks, pointer moves, resizes and clicks that do not qualify leave
\* the state, the passes, the flare and the materials alone; a tick leaves
\* every clip where it was; the load leaves the state Closed; after a
\* transition the clips stay paused.
C10_OnlyQualifyingClickChanges ==
  [][/\ (ev' \in {"tick", "mousemove", "resize"}
           \/ (clicks' # clicks /\ ~Qualifies)) =>
          /\ UNCHANGED <<isOpen, passes, material, originalMaterial>>
          /\ lensFlareActive' = lensFlareActive
          /\ \A i \in DOMAIN actions :
               /\ i \in DOMAIN actions'
               /\ actions'[i].time = actions[i].time
               /\ actions'[i].paused = actions[i].paused
     /\ (ev' = "load") => ~isOpen'
     /\ (cues' > 0) => \A i \in DOMAIN actions' : actions'[i].paused]_vars

C10_Witness == ev = "tick" /\ isOpen /\ cues = 1 /\ Len(actions) = 2
====
